---- MODULE Spec2Model ----
\* Session-scoped event telemetry of t-backspace-v2: the Convex mutation
\* logs.add (convex/logs.ts), the "logs" table with its by_session index
\* (convex/schema.ts) and the POST /api/code handler that mints a session id,
\* logs the start event, spawns the detached Modal worker and returns.
EXTENDS Integers, Sequences, FiniteSets, TLC

\* ----------------------------------------------------------------- bounds
MaxClock == 1          \* last value of Date.now() that is modelled
MaxWorkerEvents == 1   \* logs.add calls made by the detached workers, in all
MaxClientCalls == 3    \* logs.add calls made by the direct clients, in all

Reqs == {"r1", "r2"}                  \* concurrent POST /api/code requests
Clients == {"c1", "c2"}               \* concurrent direct callers of logs.add
Viewers == {"v1"}                     \* callers of listBySession
Subscribers == {"u1", "u2"}           \* live subscribers of a session's events
Tokens == {"a", "b"}                  \* values of Math.random().toString(36).substring(7)
RepoUrls == {"https://github.com/u/r", "https://github.com/u/q"}
Prompts == {"add a hello endpoint"}

\* Tokens and URLs are interchangeable values: request r1 draws the first of
\* each, request r2 draws any, which covers equal and different draws.
TokensOf(d) == IF d = "r1" THEN {"a"} ELSE Tokens
RepoUrlsOf(d) == IF d = "r1" THEN {"https://github.com/u/r"} ELSE RepoUrls

\* ------------------------------------------------------------ the program
VARIABLES
    now,      \* Date.now(): wall-clock milliseconds, read by both servers
    logs,     \* the "logs" table, rows in insertion order
    calls,    \* history: every execution of the logs.add handler, in order
    pc,       \* per request: position of the POST handler
    body,     \* per request: the parsed { repoUrl, prompt }
    sid,      \* per request: the minted sessionId
    mint,     \* history: per request, the Date.now() and the token it minted from
    resp,     \* per request: the NextResponse returned
    wst,      \* per request: the Modal process spawned for it
    wn,       \* per request: logs.add calls its worker has made
    cn,       \* logs.add calls the direct clients have made
    seen,     \* per viewer: the result of its last listBySession
    subs      \* per subscriber: its subscription and the events pushed to it

vars == <<now, logs, calls, pc, body, sid, mint, resp, wst, wn, cn, seen, subs>>

NoSession == <<>>
NoBody == [repoUrl |-> "", prompt |-> ""]
NoResp == [http |-> 0, success |-> FALSE, sessionId |-> NoSession,
           error |-> "", status |-> ""]

\* An id built from the clock alone.
MintFromTime(t, r) == <<"session", t, "">>

\* `session_${Date.now()}_${Math.random().toString(36).substring(7)}`
MintSessionId(t, r) == <<"session", t, r>>

\* An id in the minted format that no request of the model can mint.
UnknownSession == <<"session", 0, "nonexistent">>

NoRead == [session |-> NoSession, at |-> 0, result |-> <<>>]
NoSub == [st |-> "off", session |-> NoSession, since |-> 0, cursor |-> 0,
          got |-> <<>>]

\* ------------------------------------------------------------- logs.add
RequiredFields == {"type", "message", "sessionId"}

\* A validator that also wants the session to hold an event already.
ArgsValidKnownSession(args) ==
    /\ DOMAIN args = RequiredFields
    /\ \E k \in 1..Len(logs) : logs[k].sessionId = args.sessionId

\* A validator that refuses an empty message.
ArgsValidNonEmpty(args) ==
    /\ DOMAIN args = RequiredFields
    /\ args.message # <<>>

\* args: { type: v.string(), message: v.string(), sessionId: v.string() }.
\* Convex validates the arguments against the object validator before the
\* handler runs: a missing field and a field the validator does not name are
\* both refused.
ArgsValid(args) == DOMAIN args = RequiredFields

\* A row stamped with a time read once at start-up instead of at the insert.
RowStale(args) ==
    [f \in (DOMAIN args) \cup {"timestamp"} |->
        IF f = "timestamp" THEN 0 ELSE args[f]]

\* { ...args, timestamp: Date.now() }
Row(args) ==
    [f \in (DOMAIN args) \cup {"timestamp"} |->
        IF f = "timestamp" THEN now ELSE args[f]]

WithId(row, id) ==
    [f \in (DOMAIN row) \cup {"_id"} |-> IF f = "_id" THEN id ELSE row[f]]

SamePayload(e, row) ==
    /\ e.type = row.type
    /\ e.message = row.message
    /\ e.sessionId = row.sessionId

\* An insert that puts the new document in front of the stored ones.
InsertNewestFirst(table, row) == <<WithId(row, Len(table) + 1)>> \o table

\* An insert that skips a document whose payload is already stored.
InsertDedup(table, row) ==
    IF \E i \in 1..Len(table) : SamePayload(table[i], row)
    THEN table
    ELSE Append(table, WithId(row, Len(table) + 1))

\* An insert that overwrites the session's latest document of the same type.
InsertUpsert(table, row) ==
    IF \E i \in 1..Len(table) :
          table[i].sessionId = row.sessionId /\ table[i].type = row.type
    THEN LET i == CHOOSE k \in 1..Len(table) :
                     table[k].sessionId = row.sessionId /\ table[k].type = row.type
         IN [table EXCEPT ![i] = WithId(row, table[i]._id)]
    ELSE Append(table, WithId(row, Len(table) + 1))

\* An insert keyed by the event type: it overwrites the latest document of
\* the same type, whatever its session.
InsertKeyedByType(table, row) ==
    IF \E i \in 1..Len(table) : table[i].type = row.type
    THEN LET i == CHOOSE k \in 1..Len(table) :
                     /\ table[k].type = row.type
                     /\ \A l \in k + 1..Len(table) : table[l].type # row.type
         IN [table EXCEPT ![i] = WithId(row, table[i]._id)]
    ELSE Append(table, WithId(row, Len(table) + 1))

\* ctx.db.insert("logs", row): the document gets a fresh _id and goes after
\* every document already stored.
Insert(table, row) == Append(table, WithId(row, Len(table) + 1))

\* defineTable({ type, message, sessionId: v.string(), timestamp: v.number() }):
\* a document is stored only if it has exactly the fields of the table.
SchemaValid(row) == DOMAIN row = RequiredFields \cup {"timestamp"}

\* A mutation that inserts whatever it is passed.
addUnvalidated(by, args, acked) ==
    /\ logs' = Insert(logs, Row(args))
    /\ calls' = Append(calls, [by |-> by, args |-> args, at |-> now,
                               outcome |-> "ok", acked |-> acked,
                               row |-> Len(logs) + 1])

\* One execution of the mutation for caller `by`. `acked` tells whether the
\* caller learns the outcome (FALSE: the reply was lost on the way back).
add(by, args, acked) ==
    LET outcome == IF ~ArgsValid(args) THEN "ArgumentValidationError"
                   ELSE IF ~SchemaValid(Row(args)) THEN "SchemaValidationError"
                   ELSE "ok"
    IN /\ logs' = IF outcome = "ok" THEN Insert(logs, Row(args)) ELSE logs
       /\ calls' = Append(calls, [by |-> by, args |-> args, at |-> now,
                                  outcome |-> outcome, acked |-> acked,
                                  row |-> IF outcome = "ok" THEN Len(logs) + 1
                                                            ELSE 0])

\* An index that is brought up to date lazily: the newest document is missing.
ListingLagging(table, s) ==
    SelectSeq(SubSeq(table, 1, Len(table) - 1), LAMBDA e : e.sessionId = s)

\* A lookup that falls back to the whole table when the session has no row.
ListingOrAll(table, s) ==
    IF \E k \in 1..Len(table) : table[k].sessionId = s
    THEN SelectSeq(table, LAMBDA e : e.sessionId = s)
    ELSE table

\* A scan that ignores the key of the index.
ListingAnySession(table, s) == table

\* The by_session index: the rows of one sessionId, in insertion order.
Listing(table, s) == SelectSeq(table, LAMBDA e : e.sessionId = s)

listBySession(s) == Listing(logs, s)

\* ------------------------------------------------------------------ Init
Init ==
    /\ now = 0
    /\ logs = <<>>
    /\ calls = <<>>
    /\ pc = [d \in Reqs |-> "idle"]
    /\ body = [d \in Reqs |-> NoBody]
    /\ sid = [d \in Reqs |-> NoSession]
    /\ mint = [d \in Reqs |-> <<>>]
    /\ resp = [d \in Reqs |-> NoResp]
    /\ wst = [d \in Reqs |-> "none"]
    /\ wn = [d \in Reqs |-> 0]
    /\ cn = 0
    /\ seen = [v \in Viewers |-> NoRead]
    /\ subs = [u \in Subscribers |-> NoSub]

\* ---------------------------------------------------------------- clocks
Tick ==
    /\ now < MaxClock
    /\ now' = now + 1
    /\ UNCHANGED <<logs, calls, pc, body, sid, mint, resp, wst, wn, cn, seen, subs>>

\* --------------------------------------------------------- POST /api/code
Bodies(d) == [repoUrl : RepoUrlsOf(d), prompt : Prompts]

Api(d) == <<"api", d>>
Worker(d) == <<"worker", d>>
Client(c) == <<"client", c>>

\* How one convex.mutation(api.logs.add, ...) of the HTTP client can end: the
\* mutation ran and the reply arrived; the deployment could not be reached; the
\* mutation ran and the reply was lost. The last two reject the awaited promise.
MutationEnds == {"ok", "unavailable", "lost"}

Mutation(by, args, end) ==
    IF end = "unavailable"
    THEN UNCHANGED <<logs, calls>>
    ELSE add(by, args, end = "ok")

\* A start event that names the prompt instead of the repository.
StartArgsPrompt(d) ==
    [type |-> "api_start",
     message |-> <<"Starting Claude Code session for ", body[d].prompt>>,
     sessionId |-> sid[d]]

StartArgs(d) ==
    [type |-> "api_start",
     message |-> <<"Starting Claude Code session for ", body[d].repoUrl>>,
     sessionId |-> sid[d]]

TriggeredArgs(d) ==
    [type |-> "modal_triggered",
     message |-> <<"Modal Claude Code agent triggered automatically">>,
     sessionId |-> sid[d]]

\* modalError is what the inner try caught: spawn's exception when no process
\* was started, the rejected modal_triggered mutation otherwise.
ErrorArgs(d) ==
    [type |-> "modal_error",
     message |-> <<"Failed to start Modal agent: ",
                   IF wst[d] = "none" THEN "spawn failed"
                                      ELSE "mutation rejected">>,
     sessionId |-> sid[d]]

Success(s) ==
    [http |-> 200, success |-> TRUE, sessionId |-> s, error |-> "",
     status |-> "processing"]

AgentFailure(s) ==
    [http |-> 500, success |-> FALSE, sessionId |-> s,
     error |-> "Failed to start Claude Code agent", status |-> ""]

SessionFailure ==
    [http |-> 500, success |-> FALSE, sessionId |-> NoSession,
     error |-> "Failed to start Claude Code session", status |-> ""]

Return(d, r) ==
    /\ pc' = [pc EXCEPT ![d] = "done"]
    /\ resp' = [resp EXCEPT ![d] = r]

\* await req.json(), then the sessionId is minted. A body that is not JSON
\* throws into the outer catch.
Receive(d) ==
    /\ pc[d] = "idle"
    /\ \/ \E b \in Bodies(d), r \in TokensOf(d) :
             /\ body' = [body EXCEPT ![d] = b]
             /\ sid' = [sid EXCEPT ![d] = MintSessionId(now, r)]
             /\ mint' = [mint EXCEPT ![d] = <<now, r>>]
             /\ pc' = [pc EXCEPT ![d] = "log_start"]
             /\ resp' = resp
       \/ /\ Return(d, SessionFailure)
          /\ UNCHANGED <<body, sid, mint>>
    /\ UNCHANGED <<now, logs, calls, wst, wn, cn, seen, subs>>

\* A handler that does not await the start event and goes on to spawn.
LogStartNotAwaited(d) ==
    /\ pc[d] = "log_start"
    /\ pc' = [pc EXCEPT ![d] = "spawn"]
    /\ UNCHANGED <<now, logs, calls, body, sid, mint, resp, wst, wn, cn, seen,
                   subs>>

\* A handler that swallows a rejected start event and goes on to spawn.
LogStartSwallowsError(d) ==
    /\ pc[d] = "log_start"
    /\ \E end \in MutationEnds : Mutation(Api(d), StartArgs(d), end)
    /\ pc' = [pc EXCEPT ![d] = "spawn"]
    /\ UNCHANGED <<now, body, sid, mint, resp, wst, wn, cn, seen, subs>>

\* await convex.mutation(api.logs.add, { type: "api_start", ... })
LogStart(d) ==
    /\ pc[d] = "log_start"
    /\ \E end \in MutationEnds :
          /\ Mutation(Api(d), StartArgs(d), end)
          /\ IF end = "ok"
             THEN pc' = [pc EXCEPT ![d] = "spawn"] /\ resp' = resp
             ELSE Return(d, SessionFailure)
    /\ UNCHANGED <<now, body, sid, mint, wst, wn, cn, seen, subs>>

\* spawn('modal', [...], { detached: true, stdio: 'ignore' }); unref().
\* Either the process is started or spawn throws into the inner catch.
Spawn(d) ==
    /\ pc[d] = "spawn"
    /\ \/ /\ wst' = [wst EXCEPT ![d] = "running"]
          /\ pc' = [pc EXCEPT ![d] = "log_triggered"]
       \/ /\ wst' = wst
          /\ pc' = [pc EXCEPT ![d] = "log_error"]
    /\ UNCHANGED <<now, logs, calls, body, sid, mint, resp, wn, cn, seen, subs>>

\* A handler that goes on only once its Modal process has logged an event.
LogTriggeredAwaitsWorker(d) ==
    /\ pc[d] = "log_triggered"
    /\ wn[d] > 0
    /\ \E end \in MutationEnds :
          /\ Mutation(Api(d), TriggeredArgs(d), end)
          /\ IF end = "ok"
             THEN Return(d, Success(sid[d]))
             ELSE pc' = [pc EXCEPT ![d] = "log_error"] /\ resp' = resp
    /\ UNCHANGED <<now, body, sid, mint, wst, wn, cn, seen, subs>>

\* await convex.mutation(api.logs.add, { type: "modal_triggered", ... }) inside
\* the inner try, then the success response.
LogTriggered(d) ==
    /\ pc[d] = "log_triggered"
    /\ \E end \in MutationEnds :
          /\ Mutation(Api(d), TriggeredArgs(d), end)
          /\ IF end = "ok"
             THEN Return(d, Success(sid[d]))
             ELSE pc' = [pc EXCEPT ![d] = "log_error"] /\ resp' = resp
    /\ UNCHANGED <<now, body, sid, mint, wst, wn, cn, seen, subs>>

\* A catch block that answers without logging the failure.
LogErrorQuiet(d) ==
    /\ pc[d] = "log_error"
    /\ Return(d, AgentFailure(sid[d]))
    /\ UNCHANGED <<now, logs, calls, body, sid, mint, wst, wn, cn, seen, subs>>

\* catch (modalError): await convex.mutation(api.logs.add, { type:
\* "modal_error", ... }), then the 500 response. A rejected mutation throws
\* into the outer catch.
LogError(d) ==
    /\ pc[d] = "log_error"
    /\ \E end \in MutationEnds :
          /\ Mutation(Api(d), ErrorArgs(d), end)
          /\ IF end = "ok"
             THEN Return(d, AgentFailure(sid[d]))
             ELSE Return(d, SessionFailure)
    /\ UNCHANGED <<now, body, sid, mint, wst, wn, cn, seen, subs>>

\* ------------------------------------------------- the detached worker
\* modal run modal/agent.py::run_coding_agent --session-id <sessionId>: an
\* external process that calls logs.add under the sessionId it was handed.
WorkerScript ==
    <<[type |-> "setup",
       message |-> <<"Setting up Claude Code SDK environment...">>],
      [type |-> "success", message |-> <<"Successfully created PR">>]>>

\* The k-th event of a worker; a longer run ends on the terminal event.
WorkerEvent(k) ==
    WorkerScript[IF k < Len(WorkerScript) THEN k ELSE Len(WorkerScript)]

RECURSIVE SumOver(_, _)
SumOver(f, S) ==
    IF S = {} THEN 0
    ELSE LET x == CHOOSE y \in S : TRUE IN f[x] + SumOver(f, S \ {x})

WorkerAdd(d) ==
    /\ wst[d] = "running"
    /\ SumOver(wn, Reqs) < MaxWorkerEvents
    /\ add(Worker(d), [type |-> WorkerEvent(wn[d] + 1).type,
                       message |-> WorkerEvent(wn[d] + 1).message,
                       sessionId |-> sid[d]], TRUE)
    /\ wn' = [wn EXCEPT ![d] = wn[d] + 1]
    /\ UNCHANGED <<now, pc, body, sid, mint, resp, wst, cn, seen, subs>>

\* ---------------------------------------------- a direct caller of logs.add
ClientSessions == {MintSessionId(0, "a"), UnknownSession}

StatusArgs(s) ==
    [type |-> "status", message |-> <<"Cloning repository...">>,
     sessionId |-> s]

\* Arguments with a field missing, with the undeclared fields data and
\* timestamp, and with an empty message, beside the well-formed ones.
ClientArgs ==
    {StatusArgs(s) : s \in ClientSessions}
    \cup {[message |-> <<"Cloning repository...">>, sessionId |-> UnknownSession],
          [type |-> "status", sessionId |-> UnknownSession],
          [type |-> "status", message |-> <<"Cloning repository...">>],
          [type |-> "status", message |-> <<>>, sessionId |-> UnknownSession],
          [type |-> "status", message |-> <<"Cloning repository...">>,
           sessionId |-> UnknownSession, timestamp |-> 7],
          [type |-> "tool_call", message |-> <<"read_file">>,
           sessionId |-> UnknownSession,
           data |-> [tool |-> "read_file", filepath |-> "app.py"]]}

ClientAdd(c) ==
    /\ cn < MaxClientCalls
    /\ \E args \in ClientArgs : add(Client(c), args, TRUE)
    /\ cn' = cn + 1
    /\ UNCHANGED <<now, pc, body, sid, mint, resp, wst, wn, seen, subs>>

\* ------------------------------------------------------- specifications
Next ==
    \/ Tick
    \/ \E d \in Reqs : Receive(d)
    \/ \E d \in Reqs : LogStart(d)
    \/ \E d \in Reqs : Spawn(d)
    \/ \E d \in Reqs : LogTriggered(d)
    \/ \E d \in Reqs : LogError(d)
    \/ \E d \in Reqs : WorkerAdd(d)

Spec == Init /\ [][Next]_vars

\* The steps of one request's handler after the request has arrived.
Handler(d) == LogStart(d) \/ Spawn(d) \/ LogTriggered(d) \/ LogError(d)

\* Node runs a handler whose awaited promise has settled; nothing makes the
\* detached worker or the clock move.
LiveSpec == Spec /\ \A d \in Reqs : WF_vars(Handler(d))

\* The store under direct callers of the public mutation alone.
StoreNext ==
    \/ Tick
    \/ \E c \in Clients : ClientAdd(c)

StoreSpec == Init /\ [][StoreNext]_vars

\* ------------------------------------------- producers, viewers, the relay
\* The events an agent run logs, in order (the dashboard excerpt of the README).
EmitScript ==
    <<[type |-> "setup",
       message |-> <<"Setting up Claude Code SDK environment...">>],
      [type |-> "git_clone", message |-> <<"Cloning repository: ">>],
      [type |-> "success", message |-> <<"Successfully created PR: ">>]>>

\* Accepted appends under session s so far.
Emitted(s) ==
    Len(SelectSeq(calls, LAMBDA x : x.outcome = "ok" /\ x.args.sessionId = s))

EmitEvent(k) == EmitScript[IF k < Len(EmitScript) THEN k ELSE Len(EmitScript)]

\* A producer appends the session's next event through logs.add.
Emit(c) ==
    /\ cn < MaxClientCalls
    /\ \E s \in ClientSessions :
          add(Client(c), [type |-> EmitEvent(Emitted(s) + 1).type,
                          message |-> EmitEvent(Emitted(s) + 1).message,
                          sessionId |-> s], TRUE)
    /\ cn' = cn + 1
    /\ UNCHANGED <<now, pc, body, sid, mint, resp, wst, wn, seen, subs>>

\* A viewer lists one session: a query reads one snapshot of the table.
List(v) ==
    /\ \E s \in ClientSessions :
          seen' = [seen EXCEPT ![v] = [session |-> s, at |-> Len(calls),
                                       result |-> listBySession(s)]]
    /\ UNCHANGED <<now, logs, calls, pc, body, sid, mint, resp, wst, wn, cn,
                   subs>>

\* Producers and a viewer of the store.
ReadNext ==
    \/ Tick
    \/ \E c \in Clients : Emit(c)
    \/ \E v \in Viewers : List(v)

ReadSpec == Init /\ [][ReadNext]_vars

\* subscribe(sessionId): the relay remembers where the session's index ends;
\* events stored earlier are not replayed.
Subscribe(u) ==
    /\ subs[u].st = "off"
    /\ \E s \in ClientSessions :
          subs' = [subs EXCEPT ![u] =
                      [st |-> "on", session |-> s, since |-> Len(calls),
                       cursor |-> Len(listBySession(s)), got |-> <<>>]]
    /\ UNCHANGED <<now, logs, calls, pc, body, sid, mint, resp, wst, wn, cn,
                   seen>>

\* The documents of the subscriber's session it has not been pushed yet.
Pending(u) ==
    LET L == listBySession(subs[u].session)
    IN SubSeq(L, subs[u].cursor + Len(subs[u].got) + 1, Len(L))

\* The relay pushes the next document of the session to one subscriber.
Deliver(u) ==
    /\ subs[u].st = "on"
    /\ Pending(u) # <<>>
    /\ subs' = [subs EXCEPT ![u].got = Append(@, Head(Pending(u)))]
    /\ UNCHANGED <<now, logs, calls, pc, body, sid, mint, resp, wst, wn, cn,
                   seen>>

\* The subscriber closes its channel.
Disconnect(u) ==
    /\ subs[u].st = "on"
    /\ subs' = [subs EXCEPT ![u].st = "closed"]
    /\ UNCHANGED <<now, logs, calls, pc, body, sid, mint, resp, wst, wn, cn,
                   seen>>

\* Producers and live subscribers of the store.
RelayNext ==
    \/ \E c \in Clients : Emit(c)
    \/ \E u \in Subscribers : Subscribe(u)
    \/ \E u \in Subscribers : Deliver(u)
    \/ \E u \in Subscribers : Disconnect(u)

RelaySpec == Init /\ [][RelayNext]_vars

\* ============================================================ properties
Accepted == {i \in 1..Len(calls) : calls[i].outcome = "ok"}

AcceptedFor(s) == {i \in Accepted : calls[i].args.sessionId = s}

Sessions ==
    ClientSessions \cup {calls[i].args.sessionId : i \in Accepted}

Payload(e) == [type |-> e.type, message |-> e.message, sessionId |-> e.sessionId]

\* The execution of logs.add that stored document e.
CallOf(e) == CHOOSE i \in Accepted : calls[i].row = e._id

\* C1: whatever the interleaving of the producers' logs.add calls,
\* listBySession(s) holds exactly the events appended under s, each once,
\* with the payload its call carried, and the events of one producer are in
\* the order that producer issued them.
C1_ListingIsUnionInProducerOrder ==
    \A s \in Sessions :
        LET L == listBySession(s) IN
        /\ {L[k]._id : k \in 1..Len(L)} = {calls[i].row : i \in AcceptedFor(s)}
        /\ \A k, l \in 1..Len(L) : k # l => L[k]._id # L[l]._id
        /\ \A k \in 1..Len(L) :
              /\ \E i \in Accepted : calls[i].row = L[k]._id
              /\ Payload(L[k]) = calls[CallOf(L[k])].args
        /\ \A k, l \in 1..Len(L) :
              (k < l /\ calls[CallOf(L[k])].by = calls[CallOf(L[l])].by)
                  => CallOf(L[k]) < CallOf(L[l])

\* Two clients append to one session, interleaved: c1, c2, c1.
C1_Witness ==
    LET s == MintSessionId(0, "a") IN
    /\ Len(calls) = 3
    /\ Len(listBySession(s)) = 3
    /\ calls[1].by = Client("c1")
    /\ calls[2].by = Client("c2")
    /\ calls[3].by = Client("c1")

\* The message names the URL.
Includes(message, url) == \E k \in 1..Len(message) : message[k] = url

Minted(d) == sid[d] # NoSession

\* The api_start documents of a listing that name the URL.
StartsFor(L, url) ==
    {k \in 1..Len(L) : L[k].type = "api_start" /\ Includes(L[k].message, url)}

Returns(d) == pc[d] # "done" /\ pc'[d] = "done"

InHandler(d) == pc[d] \notin {"idle", "done"}

SpawnFailed(d) ==
    /\ pc[d] \in {"log_error", "done"}
    /\ wst[d] = "none"
    /\ \E i \in Accepted :
          /\ calls[i].by = Api(d)
          /\ calls[i].args.type = "api_start"
          /\ calls[i].acked

ErrorLogged(d) ==
    \E k \in 1..Len(logs) :
        /\ logs[k].type = "modal_error"
        /\ logs[k].sessionId = sid[d]
        /\ \E i \in Accepted : calls[i].by = Api(d) /\ calls[i].row = logs[k]._id

ErrorResult(r) == r.success = FALSE /\ r.http = 500

SessionsOf(d) ==
    {calls[i].args.sessionId :
        i \in {j \in Accepted : calls[j].by \in {Api(d), Worker(d)}}}

C6_NoDeduplication ==
    /\ \A i \in Accepted :
          LET a == calls[i].args
              L == listBySession(a.sessionId)
          IN Cardinality({k \in 1..Len(L) : Payload(L[k]) = a})
                 = Cardinality({j \in Accepted : calls[j].args = a})
    /\ \A i, j \in Accepted :
          (i < j /\ calls[i].args = calls[j].args)
              => /\ calls[i].row # calls[j].row
                 /\ \E k, l \in 1..Len(logs) :
                       /\ k # l
                       /\ logs[k]._id = calls[i].row
                       /\ logs[l]._id = calls[j].row
                       /\ <<logs[k].timestamp, logs[k]._id>>
                              # <<logs[l].timestamp, logs[l]._id>>

\* The same payload was appended twice and the listing holds it twice.
C6_Witness ==
    /\ \E i, j \in Accepted : i < j /\ calls[i].args = calls[j].args
    /\ \E s \in Sessions : Len(listBySession(s)) >= 2

\* C7: the store is append-only and stored events are immutable: every step
\* leaves every stored document stored, with the same type, message,
\* sessionId, timestamp and id.
C7_AppendOnly ==
    [][\A i \in 1..Len(logs) :
          \E j \in 1..Len(logs') : logs'[j] = logs[i]]_vars

\* Documents of the request handler and of a worker are stored, and more were
\* appended after them.
C7_Witness ==
    /\ Len(logs) >= 4
    /\ \E d \in Reqs : \E i, j \in Accepted :
          /\ calls[i].by = Api(d)
          /\ calls[j].by = Worker(d)
          /\ calls[i].row < Len(logs)
          /\ calls[j].row < Len(logs)

C10_DataStored ==
    \A i \in 1..Len(calls) :
        (RequiredFields \subseteq DOMAIN calls[i].args
            /\ "data" \in DOMAIN calls[i].args)
            => /\ calls[i].outcome = "ok"
               /\ \E k \in 1..Len(logs) :
                     /\ logs[k]._id = calls[i].row
                     /\ "data" \in DOMAIN logs[k]
                     /\ logs[k].data = calls[i].args.data

\* C11: the write path is permissive. Every executed append that carries
\* exactly type, message and sessionId is accepted and stored with the payload
\* it carried, whatever the three values are: a sessionId no request minted and
\* that has no earlier event, and an empty message, included.
C11_PermissiveWrite ==
    \A i \in 1..Len(calls) :
        DOMAIN calls[i].args = RequiredFields
            => /\ calls[i].outcome = "ok"
               /\ \E k \in 1..Len(logs) :
                     /\ logs[k]._id = calls[i].row
                     /\ Payload(logs[k]) = calls[i].args

\* The first append ever names a session nobody minted, and an append with an
\* empty message followed; both are stored.
C11_Witness ==
    /\ Len(calls) >= 2
    /\ calls[1].args = StatusArgs(UnknownSession)
    /\ calls[1].outcome = "ok"
    /\ calls[2].args = [type |-> "status", message |-> <<>>,
                        sessionId |-> UnknownSession]
    /\ calls[2].outcome = "ok"
    /\ Len(logs) = 2

\* C12: an append is atomic and visible at once. Every listing a viewer took
\* holds every event whose append had returned by then, with the payload the
\* append carried; every document of a listing is complete (type, message,
\* sessionId, timestamp and id); and every event whose append has returned is
\* in the current listing of its session.
C12_AtomicVisible ==
    /\ \A v \in Viewers :
          seen[v].session # NoSession =>
              LET L == seen[v].result IN
              /\ \A i \in AcceptedFor(seen[v].session) :
                    (i <= seen[v].at /\ calls[i].acked)
                        => \E k \in 1..Len(L) :
                              /\ L[k]._id = calls[i].row
                              /\ Payload(L[k]) = calls[i].args
              /\ \A k \in 1..Len(L) :
                    DOMAIN L[k] = RequiredFields \cup {"timestamp", "_id"}
    /\ \A i \in Accepted :
          calls[i].acked
              => LET L == listBySession(calls[i].args.sessionId) IN
                 \E k \in 1..Len(L) : L[k]._id = calls[i].row

\* A viewer listed a session right after its second append returned and saw
\* both events; a third append came after the listing.
C12_Witness ==
    \E v \in Viewers :
        /\ seen[v].session = UnknownSession
        /\ seen[v].at = 2
        /\ Len(seen[v].result) = 2
        /\ Len(listBySession(UnknownSession)) = 3

\* The ids of the documents stored under session s by the executions of
\* logs.add after the n-th, in the order of the executions.
StoredAfter(s, n) ==
    LET C == SelectSeq(SubSeq(calls, n + 1, Len(calls)),
                       LAMBDA x : x.outcome = "ok" /\ x.args.sessionId = s)
    IN [k \in 1..Len(C) |-> C[k].row]

Ids(q) == [k \in 1..Len(q) |-> q[k]._id]

IsPrefix(p, q) == Len(p) <= Len(q) /\ SubSeq(q, 1, Len(p)) = p

\* The session held no event when u subscribed.
SubscribedFirst(u) ==
    /\ subs[u].st # "off"
    /\ \A i \in AcceptedFor(subs[u].session) : i > subs[u].since

\* C13: a subscriber that subscribed to a session while it held no event has
\* been pushed a prefix of the session's events in arrival order, each once;
\* everything pushed is a stored document of that session, so nothing of
\* another session and nothing made up by the relay; and once the relay has
\* nothing left to push to a connected subscriber, it has received every event
\* of the session.
C13_SubscriberGetsSessionInOrder ==
    \A u \in Subscribers :
        SubscribedFirst(u) =>
            LET s == subs[u].session
                got == subs[u].got
            IN /\ IsPrefix(Ids(got), StoredAfter(s, 0))
               /\ \A k, l \in 1..Len(got) : k # l => got[k]._id # got[l]._id
               /\ \A k \in 1..Len(got) :
                     /\ got[k].sessionId = s
                     /\ \E j \in 1..Len(logs) : logs[j] = got[k]
               /\ (subs[u].st = "on" /\ ~ENABLED Deliver(u))
                     => Ids(got) = StoredAfter(s, 0)

\* A subscriber was there before the session's first event and has received
\* setup, git_clone and success, in that order.
C13_Witness ==
    \E u \in Subscribers :
        /\ SubscribedFirst(u)
        /\ subs[u].st = "on"
        /\ Len(subs[u].got) = 3
        /\ [k \in 1..3 |-> subs[u].got[k].type]
               = <<"setup", "git_clone", "success">>

\* C14: the relay broadcasts. Every subscriber has been pushed a prefix of the
\* events stored under its session after it subscribed, and all of them once
\* the relay has nothing left to push to it while it is connected; a push to
\* one subscriber, and one subscriber disconnecting, change neither the table
\* nor what any other subscriber has received or is still to receive.
C14_Broadcast ==
    /\ [](\A u \in Subscribers :
            subs[u].st # "off" =>
                LET after == StoredAfter(subs[u].session, subs[u].since) IN
                /\ IsPrefix(Ids(subs[u].got), after)
                /\ (subs[u].st = "on" /\ ~ENABLED Deliver(u))
                      => Ids(subs[u].got) = after)
    /\ [][\A u, v \in Subscribers :
            (u # v /\ subs[u].st = "on" /\ subs'[u] # subs[u])
                => /\ logs' = logs
                   /\ subs'[v] = subs[v]
                   /\ Pending(v)' = Pending(v)]_vars

\* Two subscribers of one session: the first received one event and
\* disconnected, the second stayed and has received all three.
C14_Witness ==
    /\ subs["u1"].st = "closed"
    /\ subs["u2"].st = "on"
    /\ subs["u1"].session = subs["u2"].session
    /\ subs["u1"].since = 0
    /\ subs["u2"].since = 0
    /\ Len(subs["u1"].got) = 1
    /\ Len(subs["u2"].got) = 3

\* C15: listing a session under which no event was ever appended gives the
\* empty sequence: that is what a viewer got whenever no append under the
\* session had been accepted before its listing, and what every session
\* without an accepted append lists now, whatever other sessions hold.
C15_UnknownSessionListsEmpty ==
    /\ \A v \in Viewers :
          (/\ seen[v].session # NoSession
           /\ \A i \in AcceptedFor(seen[v].session) : i > seen[v].at)
              => seen[v].result = <<>>
    /\ \A s \in ClientSessions \cup {<<"nonexistent">>} :
          AcceptedFor(s) = {} => listBySession(s) = <<>>

\* A viewer listed a session without events while another session held two,
\* and got the empty sequence.
C15_Witness ==
    \E v \in Viewers :
        /\ seen[v].session = UnknownSession
        /\ seen[v].at = 2
        /\ Len(logs) >= 2
        /\ AcceptedFor(UnknownSession) = {}
        /\ seen[v].result = <<>>

\* C16: the endpoint returns an error result only for a failure to start:
\* whenever a request has returned an error result, no worker was started
\* for it.
C16_ErrorOnlyWithoutWorker ==
    \A d \in Reqs :
        (pc[d] = "done" /\ ~resp[d].success) => wst[d] = "none"

\* The executions of logs.add by request d that stored an api_start event and
\* were acknowledged.
StartAcked(d) ==
    {i \in Accepted : /\ calls[i].by = Api(d)
                      /\ calls[i].args.type = "api_start"
                      /\ calls[i].acked}

\* C17: the start event is appended before the worker is started. A request
\* whose worker runs has an acknowledged api_start event; every event a worker
\* stored comes after the api_start event of its own request, in the same
\* session; and the first event of every minted session that holds events is
\* an api_start event.
C17_StartEventFirst ==
    \A d \in Reqs :
        /\ wst[d] # "none" => StartAcked(d) # {}
        /\ \A j \in Accepted :
              calls[j].by = Worker(d)
                  => \E i \in StartAcked(d) :
                        /\ i < j
                        /\ calls[i].args.sessionId = calls[j].args.sessionId
        /\ Minted(d) =>
              LET L == listBySession(sid[d]) IN
              L # <<>> => L[1].type = "api_start"

\* A session holds its api_start event first, then modal_triggered and an
\* event of the worker.
C17_Witness ==
    \E d \in Reqs :
        LET L == listBySession(sid[d]) IN
        /\ Len(L) = 3
        /\ L[1].type = "api_start"
        /\ \E j \in Accepted : calls[j].by = Worker(d) /\ calls[j].row = L[3]._id

\* The awaited api_start mutation of request d was rejected.
StartFailed(d) ==
    /\ pc[d] = "done"
    /\ Minted(d)
    /\ StartAcked(d) = {}

\* The accepted executions of logs.add made for request d.
StoredBy(d) == {i \in Accepted : calls[i].by \in {Api(d), Worker(d)}}

\* C18 as stated: if the append of the start event fails, the request returns
\* an error result, no worker is started and no event of that session is
\* stored.
C18_StartFailureLeavesNothing ==
    \A d \in Reqs :
        StartFailed(d)
            => /\ ErrorResult(resp[d])
               /\ wst[d] = "none"
               /\ listBySession(sid[d]) = <<>>

\* C18, amended: if the append of the start event fails, the request returns
\* the error result of the outer catch (success false, HTTP 500, no
\* sessionId), no worker is started and the handler appends nothing more; the
\* request has stored no event, unless the start event was written and only its
\* acknowledgement was lost, and then that start event is all it stored.
C18_StartFailurePropagates ==
    \A d \in Reqs :
        StartFailed(d)
            => /\ ErrorResult(resp[d])
               /\ resp[d] = SessionFailure
               /\ wst[d] = "none"
               /\ wn[d] = 0
               /\ Cardinality(StoredBy(d)) <= 1
               /\ \A i \in StoredBy(d) :
                     /\ calls[i].by = Api(d)
                     /\ calls[i].args = StartArgs(d)
                     /\ ~calls[i].acked

\* The store was unreachable for a request's start event: the request
\* returned HTTP 500 and stored nothing, while the other request went through.
C18_Witness ==
    \E d, e \in Reqs :
        /\ StartFailed(d)
        /\ StoredBy(d) = {}
        /\ resp[d] = SessionFailure
        /\ resp[e].success

\* The execution of logs.add a step adds to the history, if it adds one.
Executes(i) == Len(calls) < i /\ i = Len(calls')

\* C19: sessions are isolated. Every document of a session's listing carries
\* that sessionId; an execution of logs.add under one sessionId adds its
\* document to the end of that session's listing and leaves the listing of
\* every other session as it was, and a rejected one leaves every listing as
\* it was.
C19_SessionsIsolated ==
    [][\A s \in ClientSessions :
          LET L == Listing(logs', s) IN
          /\ \A k \in 1..Len(L) : L[k].sessionId = s
          /\ \A i \in 1..Len(calls') :
                Executes(i) =>
                    IF calls'[i].outcome = "ok" /\ calls'[i].args.sessionId = s
                    THEN /\ Len(L) = Len(Listing(logs, s)) + 1
                         /\ SubSeq(L, 1, Len(L) - 1) = Listing(logs, s)
                         /\ Payload(L[Len(L)]) = calls'[i].args
                    ELSE L = Listing(logs, s)]_vars

\* Two sessions hold events, appended in turn.
C19_Witness ==
    /\ Len(calls) = 3
    /\ Len(listBySession(UnknownSession)) = 2
    /\ Len(listBySession(MintSessionId(0, "a"))) = 1
    /\ calls[2].args.sessionId = MintSessionId(0, "a")

\* C20 as stated: every stored event has a non-empty message, as well as a
\* type and a sessionId.
C20_MessageNonEmpty ==
    \A k \in 1..Len(logs) :
        /\ RequiredFields \subseteq DOMAIN logs[k]
        /\ logs[k].message # <<>>

\* C20, amended: every stored event has a type, a message and a sessionId,
\* and the message is whatever string its append carried, the empty string
\* included: an append with an empty message is accepted and stored as it is.
C20_MessageAsGiven ==
    /\ \A k \in 1..Len(logs) :
          /\ RequiredFields \subseteq DOMAIN logs[k]
          /\ \E i \in Accepted :
                /\ calls[i].row = logs[k]._id
                /\ calls[i].args.message = logs[k].message
    /\ \A i \in 1..Len(calls) :
          (DOMAIN calls[i].args = RequiredFields /\ calls[i].args.message = <<>>)
              => /\ calls[i].outcome = "ok"
                 /\ \E k \in 1..Len(logs) :
                       logs[k]._id = calls[i].row /\ logs[k].message = <<>>

\* An event with an empty message is stored between two with a message.
C20_Witness ==
    /\ Len(logs) = 3
    /\ logs[1].message # <<>>
    /\ logs[2].message = <<>>
    /\ logs[3].message # <<>>

\* The outcome events request d stored: its accepted modal_triggered and
\* modal_error appends.
OutcomesBy(d) ==
    {i \in Accepted : /\ calls[i].by = Api(d)
                      /\ calls[i].args.type \in {"modal_triggered",
                                                 "modal_error"}}

HasType(L, t) == \E k \in 1..Len(L) : L[k].type = t

\* C21: the outcome events are mutually exclusive. No session holds both a
\* modal_triggered and a modal_error event, and each request stores at most
\* one of them, after its start event, also when an acknowledgement was lost
\* after the write.
C21_OutcomesExclusive ==
    \A d \in Reqs :
        /\ Minted(d) =>
              LET L == listBySession(sid[d]) IN
              ~(HasType(L, "modal_triggered") /\ HasType(L, "modal_error"))
        /\ Cardinality(OutcomesBy(d)) <= 1
        /\ \A j \in OutcomesBy(d) :
              \E i \in Accepted :
                  /\ i < j
                  /\ calls[i].by = Api(d)
                  /\ calls[i].args.type = "api_start"

====
